---------------------------- MODULE Spec2Model ----------------------------
(***************************************************************************)
(* Model of TPZVtkGenerator (src/src/TPZVtkGenerator.py): the converter    *)
(* that reads a Gmsh .msh text file and writes a legacy VTK file.          *)
(*                                                                         *)
(* A file is a sequence of lines; a line is the sequence of tokens that    *)
(* str.split() yields.  A token is an integer literal, a non-integer       *)
(* decimal literal, or any other word.  A Python exception is modelled by  *)
(* the name of its class in the field err ("" when the call returns).      *)
(***************************************************************************)
EXTENDS Integers, Sequences, FiniteSets, TLC

(***************************************************************************)
(* Tokens and the Python built-ins the converter applies to them.          *)
(***************************************************************************)
I(n) == [k |-> "int", n |-> n, s |-> ""]
F(n) == [k |-> "flt", n |-> n, s |-> ""]
T(s) == [k |-> "txt", n |-> 0, s |-> s]

\* int(tok) raises ValueError unless the token is an integer literal.
IsInt(t) == t.k = "int"
AllInt(toks) == \A j \in 1..Len(toks) : IsInt(toks[j])
PyInt(t) == t.n

\* float(tok) accepts integer and decimal literals.  Floats are kept in
\* tenths: the literal "1" is 1.0 (10 tenths), the literal F(5) is 0.5.
IsFloat(t) == t.k \in {"int", "flt"}
PyFloat(t) == IF t.k = "int" THEN 10 * t.n ELSE t.n

\* Python's clamping of a slice bound, negative bounds counting from the end.
PyBound(len, a) ==
    IF a < 0 THEN (IF a + len < 0 THEN 0 ELSE a + len)
    ELSE (IF a > len THEN len ELSE a)

\* s[a:b] with 0-based Python indices.
PySlice(s, a, b) ==
    LET lo == PyBound(Len(s), a)
        hi == PyBound(Len(s), b)
    IN  IF lo < hi THEN SubSeq(s, lo + 1, hi) ELSE << >>

\* s[a:]
PyFrom(s, a) == PySlice(s, a, Len(s))

\* s[i] is defined (no IndexError), and its value.
PyHas(s, i) == -Len(s) <= i /\ i < Len(s)
PyAt(s, i) == IF i < 0 THEN s[Len(s) + i + 1] ELSE s[i + 1]

\* list.index(x): the 0-based position of the first occurrence, -1 for the
\* ValueError raised when x is absent.
PyIndex(s, x) ==
    IF \E j \in 1..Len(s) : s[j] = x
    THEN (CHOOSE j \in 1..Len(s) : s[j] = x /\ \A m \in 1..(j - 1) : s[m] # x) - 1
    ELSE -1

Ok(tab) == [tab |-> tab, err |-> ""]
Raise(tab, e) == [tab |-> tab, err |-> e]

(***************************************************************************)
(* ParsePhysicalNames                                                      *)
(***************************************************************************)
RECURSIVE PhysicalNamesLoop(_, _)
PhysicalNamesLoop(tab, ls) ==
    IF ls = << >> THEN Ok(tab)
    ELSE LET line == Head(ls) IN
         IF Len(line) # 3 THEN Raise(tab, "ValueError")
         ELSE IF ~IsInt(line[1]) \/ ~IsInt(line[2]) THEN Raise(tab, "ValueError")
         ELSE PhysicalNamesLoop(
                Append(tab, [dim |-> PyInt(line[1]), tag |-> PyInt(line[2]),
                             name |-> line[3]]),
                Tail(ls))

\* The declared-count check of ParsePhysicalNames, given the table length.
PhysicalCountStop(len, nPhysical) == len # nPhysical

ParsePhysicalNames(tab, physicalLines) ==
    IF ~PyHas(physicalLines, 0) THEN Raise(tab, "IndexError")
    ELSE IF Len(physicalLines[1]) # 1 \/ ~AllInt(physicalLines[1])
         THEN Raise(tab, "ValueError")
    ELSE LET nPhysical == PyInt(physicalLines[1][1])
             r == PhysicalNamesLoop(tab, PyFrom(physicalLines, 1))
         IN  IF r.err # "" THEN r
             ELSE IF PhysicalCountStop(Len(r.tab), nPhysical)
                  THEN Raise(r.tab, "DebugStop")
             ELSE r

(***************************************************************************)
(* FindNodes, FindEntities, ParseEntities                                  *)
(***************************************************************************)
RECURSIVE IntsOf(_)
IntsOf(toks) ==
    IF toks = << >> THEN << >> ELSE <<PyInt(Head(toks))>> \o IntsOf(Tail(toks))

Abs(n) == IF n < 0 THEN -n ELSE n

RECURSIVE AbsAll(_)
AbsAll(ns) ==
    IF ns = << >> THEN << >> ELSE <<Abs(Head(ns))>> \o AbsAll(Tail(ns))

\* One iteration of the loop of FindNodes: "" and the record, or the exception.
FindNodesLine(nodeInfo) ==
    IF ~PyHas(nodeInfo, 0) THEN Raise(<< >>, "IndexError")
    ELSE IF ~IsInt(nodeInfo[1]) THEN Raise(<< >>, "ValueError")
    ELSE IF Len(PySlice(nodeInfo, 1, 4)) # 3 THEN Raise(<< >>, "ValueError")
    ELSE IF ~PyHas(nodeInfo, 4) THEN Raise(<< >>, "IndexError")
    ELSE IF ~IsInt(PyAt(nodeInfo, 4)) THEN Raise(<< >>, "ValueError")
    ELSE IF ~AllInt(PyFrom(nodeInfo, 5)) THEN Raise(<< >>, "ValueError")
    ELSE IF \E j \in 2..4 : ~IsFloat(nodeInfo[j]) THEN Raise(<< >>, "ValueError")
    ELSE Ok([tag |-> PyInt(nodeInfo[1]),
             x |-> PyFloat(nodeInfo[2]),
             y |-> PyFloat(nodeInfo[3]),
             z |-> PyFloat(nodeInfo[4]),
             numPhysicalGroups |-> PyInt(PyAt(nodeInfo, 4)),
             physicalGroups |-> IntsOf(PyFrom(nodeInfo, 5))])

RECURSIVE FindNodes(_, _)
FindNodes(nodes, nodeLines) ==
    IF nodeLines = << >> THEN Ok(nodes)
    ELSE LET r == FindNodesLine(Head(nodeLines)) IN
         IF r.err # "" THEN Raise(nodes, r.err)
         ELSE FindNodes(Append(nodes, r.tab), Tail(nodeLines))

\* One iteration of the loop of FindEntities.
FindEntitiesLine(entityInfo) ==
    IF ~PyHas(entityInfo, 0) THEN Raise(<< >>, "IndexError")
    ELSE IF ~IsInt(entityInfo[1]) THEN Raise(<< >>, "ValueError")
    ELSE IF ~PyHas(entityInfo, 7) THEN Raise(<< >>, "IndexError")
    ELSE IF ~IsInt(PyAt(entityInfo, 7)) THEN Raise(<< >>, "ValueError")
    ELSE LET entityNumPhysicalGroups == PyInt(PyAt(entityInfo, 7))
             pgToks == PySlice(entityInfo, 8, 8 + entityNumPhysicalGroups)
             nbIdx == 8 + Len(pgToks)
         IN  IF ~AllInt(pgToks) THEN Raise(<< >>, "ValueError")
             ELSE IF ~PyHas(entityInfo, nbIdx) THEN Raise(<< >>, "IndexError")
             ELSE IF ~IsInt(PyAt(entityInfo, nbIdx)) THEN Raise(<< >>, "ValueError")
             ELSE IF ~AllInt(PyFrom(entityInfo, nbIdx + 1))
                  THEN Raise(<< >>, "ValueError")
             ELSE Ok([tag |-> PyInt(entityInfo[1]),
                      numPhysicalGroups |-> entityNumPhysicalGroups,
                      physicalGroups |-> IntsOf(pgToks),
                      numBoundary |-> PyInt(PyAt(entityInfo, nbIdx)),
                      boundaryTags |-> AbsAll(IntsOf(PyFrom(entityInfo, nbIdx + 1)))])

RECURSIVE FindEntities(_, _)
FindEntities(entity, entityLines) ==
    IF entityLines = << >> THEN Ok(entity)
    ELSE LET r == FindEntitiesLine(Head(entityLines)) IN
         IF r.err # "" THEN Raise(entity, r.err)
         ELSE FindEntities(Append(entity, r.tab), Tail(entityLines))

\* No check of the declared counts.
EntityCountSkip(len, declared) == FALSE

\* The four declared-count checks that end ParseEntities.
EntityCountStop(len, declared) == len # declared

ParseEntities(ents, entityLines) ==
    IF ~PyHas(entityLines, 0) THEN Raise(ents, "IndexError")
    ELSE IF Len(entityLines[1]) # 4 THEN Raise(ents, "ValueError")
    ELSE LET hdr == entityLines[1] IN
    IF ~AllInt(SubSeq(hdr, 1, 3)) THEN Raise(ents, "ValueError")
    ELSE LET nNodes == PyInt(hdr[1])
             nCurves == PyInt(hdr[2])
             nSurfaces == PyInt(hdr[3])
             nodesStart == 1
             nodesEnd == nodesStart + nNodes
             curvesStart == nodesEnd
             curvesEnd == curvesStart + nCurves
             surfacesStart == curvesEnd
             surfacesEnd == surfacesStart + nSurfaces
             volumesStart == surfacesEnd
             rn == FindNodes(ents.nodes, PySlice(entityLines, nodesStart, nodesEnd))
             e1 == [ents EXCEPT !.nodes = rn.tab]
             rc == FindEntities(ents.curves, PySlice(entityLines, curvesStart, curvesEnd))
             e2 == [e1 EXCEPT !.curves = rc.tab]
             rs == FindEntities(ents.surfaces,
                                PySlice(entityLines, surfacesStart, surfacesEnd))
             e3 == [e2 EXCEPT !.surfaces = rs.tab]
             rv == FindEntities(ents.volumes, PyFrom(entityLines, volumesStart))
             e4 == [e3 EXCEPT !.volumes = rv.tab]
         IN  IF rn.err # "" THEN Raise(e1, rn.err)
             ELSE IF rc.err # "" THEN Raise(e2, rc.err)
             ELSE IF rs.err # "" THEN Raise(e3, rs.err)
             ELSE IF rv.err # "" THEN Raise(e4, rv.err)
             ELSE IF EntityCountStop(Len(e4.nodes), nNodes) THEN Raise(e4, "DebugStop")
             ELSE IF EntityCountStop(Len(e4.curves), nCurves) THEN Raise(e4, "DebugStop")
             ELSE IF EntityCountStop(Len(e4.surfaces), nSurfaces)
                  THEN Raise(e4, "DebugStop")
             ELSE IF ~IsInt(hdr[4]) THEN Raise(e4, "ValueError")
             ELSE IF EntityCountStop(Len(e4.volumes), PyInt(hdr[4]))
                  THEN Raise(e4, "DebugStop")
             ELSE Ok(e4)

(***************************************************************************)
(* ParseNodes                                                              *)
(***************************************************************************)
\* The lines with n tokens or more.
RECURSIVE LinesWithTokensOrMore(_, _)
LinesWithTokensOrMore(ls, n) ==
    IF ls = << >> THEN << >>
    ELSE (IF Len(Head(ls)) >= n THEN <<Head(ls)>> ELSE << >>)
         \o LinesWithTokensOrMore(Tail(ls), n)

\* The lines of nodeLines[1:] with exactly n tokens, in file order.
RECURSIVE LinesWithTokens(_, _)
LinesWithTokens(ls, n) ==
    IF ls = << >> THEN << >>
    ELSE (IF Len(Head(ls)) = n THEN <<Head(ls)>> ELSE << >>)
         \o LinesWithTokens(Tail(ls), n)

\* The loop over zip(nodeTagIdxList, coordsIdxList): it ends with the shorter.
RECURSIVE NodesZipLoop(_, _, _)
NodesZipLoop(nodes, tagLines, coordLines) ==
    IF tagLines = << >> \/ coordLines = << >> THEN Ok(nodes)
    ELSE LET nodeTag == Head(tagLines)
             coord == Head(coordLines)
         IN  IF \E j \in 1..3 : ~IsFloat(coord[j]) THEN Raise(nodes, "ValueError")
             ELSE IF ~IsInt(nodeTag[1]) THEN Raise(nodes, "ValueError")
             ELSE NodesZipLoop(
                    Append(nodes, [tag |-> PyInt(nodeTag[1]),
                                   x |-> PyFloat(coord[1]),
                                   y |-> PyFloat(coord[2]),
                                   z |-> PyFloat(coord[3])]),
                    Tail(tagLines), Tail(coordLines))

\* Only too few vertices stop the parser.
NodeCountTooFew(len, nNodes) == len < nNodes

\* The three checks that end ParseNodes.
NodeCountStop(len, nNodes) == len # nNodes
MinTagStop(nodes, minTag) == minTag # PyAt(nodes, 0).tag
MaxTagStop(nodes, maxTag) == maxTag # PyAt(nodes, -1).tag

ParseNodes(nodes, nodeLines) ==
    IF ~PyHas(nodeLines, 0) THEN Raise(nodes, "IndexError")
    ELSE IF Len(nodeLines[1]) # 4 THEN Raise(nodes, "ValueError")
    ELSE LET nNodes == nodeLines[1][2]
             minTag == nodeLines[1][3]
             maxTag == nodeLines[1][4]
             rest == PyFrom(nodeLines, 1)
             r == NodesZipLoop(nodes, LinesWithTokens(rest, 1), LinesWithTokens(rest, 3))
         IN  IF r.err # "" THEN r
             ELSE IF ~IsInt(nNodes) THEN Raise(r.tab, "ValueError")
             ELSE IF NodeCountStop(Len(r.tab), PyInt(nNodes)) THEN Raise(r.tab, "DebugStop")
             ELSE IF ~IsInt(minTag) THEN Raise(r.tab, "ValueError")
             ELSE IF ~PyHas(r.tab, 0) THEN Raise(r.tab, "IndexError")
             ELSE IF MinTagStop(r.tab, PyInt(minTag)) THEN Raise(r.tab, "DebugStop")
             ELSE IF ~IsInt(maxTag) THEN Raise(r.tab, "ValueError")
             ELSE IF MaxTagStop(r.tab, PyInt(maxTag)) THEN Raise(r.tab, "DebugStop")
             ELSE r

(***************************************************************************)
(* ParseElements: one iteration of its while loop                          *)
(***************************************************************************)
\* The for loop over the lines of one block.
RECURSIVE ElementBlockLoop(_, _, _, _, _)
ElementBlockLoop(elems, ls, elDim, elEntityTag, elType) ==
    IF ls = << >> THEN Ok(elems)
    ELSE LET toks == Head(ls) IN
         IF ~AllInt(toks) \/ Len(toks) < 1 THEN Raise(elems, "ValueError")
         ELSE ElementBlockLoop(
                Append(elems, [tag |-> PyInt(toks[1]),
                               dim |-> elDim,
                               type |-> elType,
                               nodeTags |-> IntsOf(Tail(toks)),
                               entityTag |-> elEntityTag]),
                Tail(ls), elDim, elEntityTag, elType)

\* The loop stopping one line earlier.
ElementsLoopCondShort(elementLines, i) == i < Len(elementLines) - 2

\* The loop condition of ParseElements.
ElementsLoopCond(elementLines, i) == i < Len(elementLines) - 1

\* The loop body: the table, the next value of i, and the exception if any.
ElementsLoopBody(elems, elementLines, i) ==
    IF ~PyHas(elementLines, i) THEN [tab |-> elems, i |-> i, err |-> "IndexError"]
    ELSE LET elementLine == PyAt(elementLines, i) IN
         IF Len(elementLine) # 4 THEN [tab |-> elems, i |-> i + 1, err |-> ""]
         ELSE IF ~AllInt(elementLine) THEN [tab |-> elems, i |-> i, err |-> "ValueError"]
         ELSE LET elDim == PyInt(elementLine[1])
                  elEntityTag == PyInt(elementLine[2])
                  elType == PyInt(elementLine[3])
                  numElBlock == PyInt(elementLine[4])
                  r == ElementBlockLoop(elems,
                           PySlice(elementLines, i + 1, i + 1 + numElBlock),
                           elDim, elEntityTag, elType)
              IN  IF r.err # "" THEN [tab |-> r.tab, i |-> i, err |-> r.err]
                  ELSE [tab |-> r.tab, i |-> i + 1 + numElBlock, err |-> ""]

(***************************************************************************)
(* MergeEntityAndElements                                                  *)
(***************************************************************************)
\* The if/elif chain that picks the entity table: with no branch taken the
\* local entityList keeps the value of the previous iteration.
EntityListFor(ents, elDim, prev) ==
    IF elDim = 0 THEN [bound |-> TRUE, list |-> ents.nodes]
    ELSE IF elDim = 1 THEN [bound |-> TRUE, list |-> ents.curves]
    ELSE IF elDim = 2 THEN [bound |-> TRUE, list |-> ents.surfaces]
    ELSE IF elDim = 3 THEN [bound |-> TRUE, list |-> ents.volumes]
    ELSE prev

\* The entities next() iterates over: those of entityList with the tag.
Matching(entityList, elEntityTag) ==
    {j \in 1..Len(entityList) : entityList[j].tag = elEntityTag}

FirstMatch(entityList, elEntityTag) ==
    LET m == Matching(entityList, elEntityTag)
    IN  entityList[CHOOSE j \in m : \A q \in m : j <= q]

\* The vertex tags made zero-based while the groups are attached.
WithGroupsZeroBased(element, groups) ==
    [tag |-> element.tag, dim |-> element.dim, type |-> element.type,
     nodeTags |-> [j \in 1..Len(element.nodeTags) |-> element.nodeTags[j] - 1],
     entityTag |-> element.entityTag,
     physicalGroups |-> groups]

WithGroups(element, groups) ==
    [tag |-> element.tag, dim |-> element.dim, type |-> element.type,
     nodeTags |-> element.nodeTags, entityTag |-> element.entityTag,
     physicalGroups |-> groups]

RECURSIVE MergeLoop(_, _, _, _)
MergeLoop(done, todo, ents, entityList) ==
    IF todo = << >> THEN Ok(done)
    ELSE LET element == Head(todo)
             el == EntityListFor(ents, element.dim, entityList)
         IN  IF ~el.bound THEN Raise(done \o todo, "UnboundLocalError")
             ELSE IF Matching(el.list, element.entityTag) = {}
                  THEN Raise(done \o todo, "StopIteration")
             ELSE MergeLoop(
                    Append(done, WithGroups(element,
                              FirstMatch(el.list, element.entityTag).physicalGroups)),
                    Tail(todo), ents, el)

MergeEntityAndElements(elems, ents) ==
    MergeLoop(<< >>, elems, ents, [bound |-> FALSE, list |-> << >>])

(***************************************************************************)
(* The serializer.  The output text is a sequence of blocks, in the order  *)
(* in which they are appended to the string: a block is its keyword, the   *)
(* words that follow the numbers of its first line, the numbers of its     *)
(* first line, and its rows.                                               *)
(***************************************************************************)
Block(kind, attr, head, rows) ==
    [kind |-> kind, attr |-> attr, head |-> head, rows |-> rows]

\* The four fixed lines WriteVTK starts the text with.
VTKPreamble ==
    Block("# vtk DataFile Version 2.0",
          <<"Created by Gmsh 4.13.1", "ASCII", "DATASET UNSTRUCTURED_GRID">>, << >>, << >>)

WriteVTKPointData(nodes) ==
    Block("POINTS", <<"double">>, <<Len(nodes)>>,
          [j \in 1..Len(nodes) |-> <<nodes[j].x, nodes[j].y, nodes[j].z>>])

\* The tag written as it is.
VtkIndexKept(nodeTag) == nodeTag

\* VTK uses zero-based indexing.
VtkIndex(nodeTag) == nodeTag - 1

\* One cell record: the vertex count, then the converted vertex tags.
CellRecord(element) ==
    <<Len(element.nodeTags)>>
    \o [j \in 1..Len(element.nodeTags) |-> VtkIndex(element.nodeTags[j])]

\* One row per element, whatever the number of its groups.
GroupLoopOnce(acc, emit) ==
    IF emit = << >> THEN acc
    ELSE [rows |-> Append(acc.rows, Head(emit)), n |-> acc.n + 1]

\* The inner loop "for ... in element['physicalGroups']" of the three writers:
\* acc is the rows and the counter so far, emit what the iterations emit, one
\* row per physical group and in the order of the groups.
RECURSIVE GroupLoop(_, _)
GroupLoop(acc, emit) ==
    IF emit = << >> THEN acc
    ELSE GroupLoop([rows |-> Append(acc.rows, Head(emit)), n |-> acc.n + 1], Tail(emit))

\* WriteVTKCellData: cellData, nCells and totalNumIndices.
RECURSIVE CellLoop(_, _, _)
CellLoop(acc, totalNumIndices, elems) ==
    IF elems = << >> THEN [rows |-> acc.rows, nCells |-> acc.n,
                           totalNumIndices |-> totalNumIndices]
    ELSE LET element == Head(elems)
             emit == [j \in 1..Len(element.physicalGroups) |-> CellRecord(element)]
         IN  CellLoop(GroupLoop(acc, emit),
                      totalNumIndices
                        + Len(element.physicalGroups) * Len(element.nodeTags),
                      Tail(elems))

\* The size without the count that starts each record.
WriteVTKCellDataNoPrefix(elems) ==
    LET r == CellLoop([rows |-> << >>, n |-> 0], 0, elems)
    IN  Block("CELLS", << >>, <<r.nCells, r.totalNumIndices>>, r.rows)

WriteVTKCellData(elems) ==
    LET r == CellLoop([rows |-> << >>, n |-> 0], 0, elems)
    IN  Block("CELLS", << >>, <<r.nCells, r.totalNumIndices + r.nCells>>, r.rows)

\* The dictionary mshToVtk.
MshTypes == {1, 2, 3, 4, 5, 7}
mshToVtk(t) ==
    CASE t = 1 -> 3
      [] t = 2 -> 5
      [] t = 3 -> 9
      [] t = 4 -> 10
      [] t = 5 -> 12
      [] t = 7 -> 14

\* An element whose type is not in the dictionary left out.
RECURSIVE CellTypesLoopSkip(_, _)
CellTypesLoopSkip(acc, elems) ==
    IF elems = << >> THEN Ok(acc)
    ELSE LET element == Head(elems)
             emit == [j \in 1..Len(element.physicalGroups) |-> <<mshToVtk(element.type)>>]
         IN  IF element.type \notin MshTypes THEN CellTypesLoopSkip(acc, Tail(elems))
             ELSE CellTypesLoopSkip(GroupLoop(acc, emit), Tail(elems))

\* The type looked up once per element, before the loop over its groups.
RECURSIVE CellTypesLoopEager(_, _)
CellTypesLoopEager(acc, elems) ==
    IF elems = << >> THEN Ok(acc)
    ELSE LET element == Head(elems)
             emit == [j \in 1..Len(element.physicalGroups) |-> <<mshToVtk(element.type)>>]
         IN  IF element.type \notin MshTypes THEN Raise(acc, "KeyError")
             ELSE CellTypesLoopEager(GroupLoop(acc, emit), Tail(elems))

\* WriteVTKCellTypes: mshToVtk[vtkType] raises KeyError, in an iteration of
\* the inner loop only, that is for an element with at least one group.
RECURSIVE CellTypesLoop(_, _)
CellTypesLoop(acc, elems) ==
    IF elems = << >> THEN Ok(acc)
    ELSE LET element == Head(elems)
             emit == [j \in 1..Len(element.physicalGroups) |-> <<mshToVtk(element.type)>>]
         IN  IF element.physicalGroups # << >> /\ element.type \notin MshTypes
             THEN Raise(acc, "KeyError")
             ELSE CellTypesLoop(GroupLoop(acc, emit), Tail(elems))

WriteVTKCellTypes(elems) ==
    LET r == CellTypesLoop([rows |-> << >>, n |-> 0], elems)
    IN  IF r.err # "" THEN Raise(<< >>, r.err)
        ELSE Ok(Block("CELL_TYPES", << >>, <<r.tab.n>>, r.tab.rows))

\* Every field name taken for a known one.
SupportedFieldAny(field) == TRUE

\* nSolutions: the size and the type of a field, or DebugStop.
SupportedField(field) == field = "MaterialID"

\* The value Solution emits for the duplicate that group physicalGroup produced.
FieldValue(physicalGroup) == physicalGroup

\* One value per element that is in a group, the first of its groups.
RECURSIVE SolutionPerElement(_, _)
SolutionPerElement(acc, elems) ==
    IF elems = << >> THEN acc
    ELSE LET groups == Head(elems).physicalGroups
             emit == [j \in 1..Len(groups) |-> <<FieldValue(groups[j])>>]
         IN  SolutionPerElement(GroupLoopOnce(acc, emit), Tail(elems))

\* Solution: fieldData and nElements.
RECURSIVE Solution(_, _)
Solution(acc, elems) ==
    IF elems = << >> THEN acc
    ELSE LET groups == Head(elems).physicalGroups
             emit == [j \in 1..Len(groups) |-> <<FieldValue(groups[j])>>]
         IN  Solution(GroupLoop(acc, emit), Tail(elems))

\* One iteration of the loop of WriteVTKHeader: text is assigned, not extended.
FieldBlock(elems) ==
    LET r == Solution([rows |-> << >>, n |-> 0], elems)
    IN  Block("CELL_DATA", <<"SCALARS", "MaterialID", "int", "LOOKUP_TABLE default">>,
              <<r.n, 1>>, r.rows)

RECURSIVE HeaderLoop(_, _, _)
HeaderLoop(text, fs, elems) ==
    IF fs = << >> THEN (IF text = << >> THEN Raise(<< >>, "UnboundLocalError") ELSE Ok(text))
    ELSE IF ~SupportedField(Head(fs)) THEN Raise(<< >>, "DebugStop")
    ELSE HeaderLoop(<<FieldBlock(elems)>>, Tail(fs), elems)

\* WriteVTKHeader: the blocks it returns (the text of the last iteration).
WriteVTKHeader(fs, elems) == HeaderLoop(<< >>, fs, elems)

(***************************************************************************)
(* The state of one converter object and of the run of Do on it.           *)
(***************************************************************************)
VARIABLES
    run,             \* the number of calls of Do on this object, this one included
    meshFile,        \* the lines of the input file (argument meshFile of Do)
    fields,          \* the argument fields of Do
    pc,              \* the statement of Do (or of WriteVTK) to execute next
    status,          \* "running", "done" (Do returned) or "failed" (it raised)
    err,             \* the exception Do raised, "" if none
    idx,             \* the positions of the eight section markers
    fPhysicalNames,  \* self.fPhysicalNames
    fEntities,       \* self.fEntities
    fNodes,          \* self.fNodes
    fElements,       \* self.fElements
    i,               \* the local i of ParseElements
    text,            \* the local text of WriteVTK
    disk,            \* what has been written to the output file, oldest first
    attrs,           \* the __dict__ of a TPZBasicDataStructure object
    call,            \* the last call made on that object
    raised,          \* the exception that call raised, "" if it returned
    lock,            \* "active" since DeactivateAttr returned, "released" since
                     \* ActivateAttr returned, "never" before both
    fRadius,                \* self.fRadius of a TPZRandomObstruction
    fObstructionRadius,     \* self.fObstructionRadius
    fNumberOfObstructions,  \* self.fNumberOfObstructions
    counter,                \* the local counter of NoOverlappingCircles
    circleList,             \* the local circleList of NoOverlappingCircles
    sampling                \* "while" in the loop of NoOverlappingCircles,
                            \* "return" once it has returned circleList

\* The state of the TPZBasicDataStructure object.
lockVars == <<attrs, call, raised, lock>>

\* The state of the call of NoOverlappingCircles.
samplingVars == <<fRadius, fObstructionRadius, fNumberOfObstructions, counter,
                  circleList, sampling>>

\* The state of the call of Do on the converter.
converterVars == <<run, meshFile, fields, pc, status, err, idx, fPhysicalNames, fEntities,
                   fNodes, fElements, i, text, disk>>

vars == <<converterVars, lockVars, samplingVars>>

tables == <<fPhysicalNames, fEntities, fNodes, fElements>>

Marker(name) == <<T(name)>>

NoIdx == [PhysicalNames |-> <<0, 0>>, Entities |-> <<0, 0>>,
          Nodes |-> <<0, 0>>, Elements |-> <<0, 0>>]

\* The empty tables of __init__.
NewEntities == [nodes |-> << >>, curves |-> << >>, surfaces |-> << >>, volumes |-> << >>]

\* lines[start + 1 : end] for a located section.
Section(lines, se) == PySlice(lines, se[1] + 1, se[2])

Fail(e) == /\ status' = "failed"
           /\ err' = e
           /\ pc' = pc

\* lines.index of the opening and of the closing marker of each section.
Locate(lines) ==
    [PhysicalNames |-> <<PyIndex(lines, Marker("$PhysicalNames")),
                         PyIndex(lines, Marker("$EndPhysicalNames"))>>,
     Entities |-> <<PyIndex(lines, Marker("$Entities")),
                    PyIndex(lines, Marker("$EndEntities"))>>,
     Nodes |-> <<PyIndex(lines, Marker("$Nodes")), PyIndex(lines, Marker("$EndNodes"))>>,
     Elements |-> <<PyIndex(lines, Marker("$Elements")),
                    PyIndex(lines, Marker("$EndElements"))>>]

\* Only the opening markers looked up.
LocateRaisesOpening(found) ==
    \E n \in {"PhysicalNames", "Entities", "Nodes", "Elements"} : found[n][1] = -1

\* Some lines.index call raised ValueError.
LocateRaises(found) ==
    \E n \in {"PhysicalNames", "Entities", "Nodes", "Elements"} :
        found[n][1] = -1 \/ found[n][2] = -1

\* Do, lines 379-392: read the file and look the markers up.
DoLocate ==
    /\ pc = "Locate" /\ status = "running"
    /\ LET found == Locate(meshFile) IN
       IF LocateRaises(found)
       THEN Fail("ValueError") /\ UNCHANGED idx
       ELSE idx' = found /\ pc' = "ParsePhysicalNames" /\ UNCHANGED <<status, err>>
    /\ UNCHANGED <<lockVars, samplingVars, run, meshFile, fields, tables, i, text, disk>>

DoParsePhysicalNames ==
    /\ pc = "ParsePhysicalNames" /\ status = "running"
    /\ LET r == ParsePhysicalNames(fPhysicalNames, Section(meshFile, idx.PhysicalNames)) IN
       /\ fPhysicalNames' = r.tab
       /\ IF r.err # "" THEN Fail(r.err)
          ELSE pc' = "ParseEntities" /\ UNCHANGED <<status, err>>
    /\ UNCHANGED <<lockVars, samplingVars, run, meshFile, fields, idx, fEntities, fNodes, fElements, i, text, disk>>

DoParseEntities ==
    /\ pc = "ParseEntities" /\ status = "running"
    /\ LET r == ParseEntities(fEntities, Section(meshFile, idx.Entities)) IN
       /\ fEntities' = r.tab
       /\ IF r.err # "" THEN Fail(r.err)
          ELSE pc' = "ParseNodes" /\ UNCHANGED <<status, err>>
    /\ UNCHANGED <<lockVars, samplingVars, run, meshFile, fields, idx, fPhysicalNames, fNodes, fElements, i, text, disk>>

DoParseNodes ==
    /\ pc = "ParseNodes" /\ status = "running"
    /\ LET r == ParseNodes(fNodes, Section(meshFile, idx.Nodes)) IN
       /\ fNodes' = r.tab
       /\ IF r.err # "" THEN Fail(r.err)
          ELSE pc' = "ParseElements" /\ UNCHANGED <<status, err>>
    /\ UNCHANGED <<lockVars, samplingVars, run, meshFile, fields, idx, fPhysicalNames, fEntities, fElements, i, text, disk>>

\* ParseElements, line 198.
DoParseElements ==
    /\ pc = "ParseElements" /\ status = "running"
    /\ i' = 1
    /\ pc' = "ParseElementsWhile"
    /\ UNCHANGED <<lockVars, samplingVars, run, meshFile, fields, status, err, idx, tables, text, disk>>

\* ParseElements, lines 199-221: one test of the loop condition, and one
\* iteration if it holds.
ParseElementsWhile ==
    /\ pc = "ParseElementsWhile" /\ status = "running"
    /\ LET elementLines == Section(meshFile, idx.Elements) IN
       IF ~ElementsLoopCond(elementLines, i)
       THEN /\ pc' = "MergeEntityAndElements"
            /\ UNCHANGED <<status, err, fElements, i>>
       ELSE LET r == ElementsLoopBody(fElements, elementLines, i) IN
            /\ fElements' = r.tab
            /\ i' = r.i
            /\ IF r.err # "" THEN Fail(r.err) ELSE UNCHANGED <<pc, status, err>>
    /\ UNCHANGED <<lockVars, samplingVars, run, meshFile, fields, idx, fPhysicalNames, fEntities, fNodes, text, disk>>

DoMergeEntityAndElements ==
    /\ pc = "MergeEntityAndElements" /\ status = "running"
    /\ LET r == MergeEntityAndElements(fElements, fEntities) IN
       /\ fElements' = r.tab
       /\ IF r.err # "" THEN Fail(r.err)
          ELSE pc' = "WriteVTKPointData" /\ UNCHANGED <<status, err>>
    /\ UNCHANGED <<lockVars, samplingVars, run, meshFile, fields, idx, fPhysicalNames, fEntities, fNodes, i, text, disk>>

\* WriteVTK, lines 352-357.
DoWriteVTKPointData ==
    /\ pc = "WriteVTKPointData" /\ status = "running"
    /\ text' = <<VTKPreamble, WriteVTKPointData(fNodes)>>
    /\ pc' = "WriteVTKCellData"
    /\ UNCHANGED <<lockVars, samplingVars, run, meshFile, fields, status, err, idx, tables, i, disk>>

\* The Cells block put before the Points block.
CellDataBeforePoints ==
    /\ pc = "WriteVTKCellData" /\ status = "running"
    /\ text' = <<text[1], WriteVTKCellData(fElements), text[2]>>
    /\ pc' = "WriteVTKCellTypes"
    /\ UNCHANGED <<lockVars, samplingVars, run, meshFile, fields, status, err, idx, tables, i, disk>>

\* WriteVTK, line 359.
DoWriteVTKCellData ==
    /\ pc = "WriteVTKCellData" /\ status = "running"
    /\ text' = Append(text, WriteVTKCellData(fElements))
    /\ pc' = "WriteVTKCellTypes"
    /\ UNCHANGED <<lockVars, samplingVars, run, meshFile, fields, status, err, idx, tables, i, disk>>

\* The text written to the file block by block.
StreamingWriteVTKCellTypes ==
    /\ pc = "WriteVTKCellTypes" /\ status = "running"
    /\ LET r == WriteVTKCellTypes(fElements) IN
       IF r.err # "" THEN Fail(r.err) /\ UNCHANGED <<text, disk>>
       ELSE /\ text' = Append(text, r.tab)
            /\ disk' = Append(disk, text')
            /\ pc' = "WriteVTKHeader"
            /\ UNCHANGED <<status, err>>
    /\ UNCHANGED <<lockVars, samplingVars, run, meshFile, fields, idx, tables, i>>

\* WriteVTK, line 361.
DoWriteVTKCellTypes ==
    /\ pc = "WriteVTKCellTypes" /\ status = "running"
    /\ LET r == WriteVTKCellTypes(fElements) IN
       IF r.err # "" THEN Fail(r.err) /\ UNCHANGED text
       ELSE /\ text' = Append(text, r.tab)
            /\ pc' = "WriteVTKHeader"
            /\ UNCHANGED <<status, err>>
    /\ UNCHANGED <<lockVars, samplingVars, run, meshFile, fields, idx, tables, i, disk>>

\* WriteVTK, line 363.
DoWriteVTKHeader ==
    /\ pc = "WriteVTKHeader" /\ status = "running"
    /\ LET r == WriteVTKHeader(fields, fElements) IN
       IF r.err # "" THEN Fail(r.err) /\ UNCHANGED text
       ELSE /\ text' = text \o r.tab
            /\ pc' = "write"
            /\ UNCHANGED <<status, err>>
    /\ UNCHANGED <<lockVars, samplingVars, run, meshFile, fields, idx, tables, i, disk>>

\* WriteVTK, lines 365-368, and the return of Do.
DoWrite ==
    /\ pc = "write" /\ status = "running"
    /\ disk' = Append(disk, text)
    /\ pc' = "return"
    /\ status' = "done"
    /\ UNCHANGED <<lockVars, samplingVars, run, meshFile, fields, err, idx, tables, i, text>>

(***************************************************************************)
(* Do as a function of the object's tables and of its two arguments: the   *)
(* same statements as the actions above, composed.                         *)
(***************************************************************************)
\* ParseElements: the while loop run to its end.  What an iteration does
\* with i depends on the lines and on i only, so that the loop never ends
\* once i takes a value it has had (seen): "NoReturn" stands for that.
RECURSIVE ElementsLoop(_, _, _, _)
ElementsLoop(elems, elementLines, j, seen) ==
    IF ~ElementsLoopCond(elementLines, j) THEN Ok(elems)
    ELSE IF j \in seen THEN Raise(elems, "NoReturn")
    ELSE LET r == ElementsLoopBody(elems, elementLines, j) IN
         IF r.err # "" THEN Raise(r.tab, r.err)
         ELSE ElementsLoop(r.tab, elementLines, r.i, seen \cup {j})

ParseElements(elems, elementLines) == ElementsLoop(elems, elementLines, 1, {})

\* WriteVTK up to the open(): the text, or the exception of a block writer.
WriteVTK(nodes, elems, fs) ==
    LET types == WriteVTKCellTypes(elems)
        header == WriteVTKHeader(fs, elems)
    IN  IF types.err # "" THEN Raise(<< >>, types.err)
        ELSE IF header.err # "" THEN Raise(<< >>, header.err)
        ELSE Ok(<<VTKPreamble, WriteVTKPointData(nodes), WriteVTKCellData(elems),
                  types.tab>> \o header.tab)

\* The four tables of an object as __init__ leaves them.
NewTables == [fPhysicalNames |-> << >>, fEntities |-> NewEntities,
              fNodes |-> << >>, fElements |-> << >>]

\* How a call of Do ends: returned or raised, the tables it leaves, and the
\* text it has written (none when it raised).
Returned(self, out) == [status |-> "done", err |-> "", self |-> self, written |-> <<out>>]
Raised(self, e) == [status |-> "failed", err |-> e, self |-> self, written |-> << >>]
NoReturn(self) == [status |-> "running", err |-> "", self |-> self, written |-> << >>]

Do(self, lines, fs) ==
    LET found == Locate(lines) IN
    IF LocateRaises(found) THEN Raised(self, "ValueError")
    ELSE
    LET p == ParsePhysicalNames(self.fPhysicalNames, Section(lines, found.PhysicalNames))
        s1 == [self EXCEPT !.fPhysicalNames = p.tab]
    IN  IF p.err # "" THEN Raised(s1, p.err)
    ELSE
    LET e == ParseEntities(s1.fEntities, Section(lines, found.Entities))
        s2 == [s1 EXCEPT !.fEntities = e.tab]
    IN  IF e.err # "" THEN Raised(s2, e.err)
    ELSE
    LET n == ParseNodes(s2.fNodes, Section(lines, found.Nodes))
        s3 == [s2 EXCEPT !.fNodes = n.tab]
    IN  IF n.err # "" THEN Raised(s3, n.err)
    ELSE
    LET l == ParseElements(s3.fElements, Section(lines, found.Elements))
        s4 == [s3 EXCEPT !.fElements = l.tab]
    IN  IF l.err = "NoReturn" THEN NoReturn(s4)
    ELSE IF l.err # "" THEN Raised(s4, l.err)
    ELSE
    LET m == MergeEntityAndElements(s4.fElements, s4.fEntities)
        s5 == [s4 EXCEPT !.fElements = m.tab]
    IN  IF m.err # "" THEN Raised(s5, m.err)
    ELSE
    LET w == WriteVTK(s5.fNodes, s5.fElements, fs)
    IN  IF w.err # "" THEN Raised(s5, w.err) ELSE Returned(s5, w.tab)

(***************************************************************************)
(* The input files and field lists Do is run on.                           *)
(***************************************************************************)
MaxNames == 2     \* records of a physical-names section
MaxVerts == 2     \* tag lines and coordinate lines of a vertices section
MaxBlocks == 2    \* blocks of an elements section
MaxFields == 2    \* names of a field list

Toks(ns) == [j \in 1..Len(ns) |-> I(ns[j])]

RECURSIVE Flatten(_)
Flatten(ss) == IF ss = << >> THEN << >> ELSE Head(ss) \o Flatten(Tail(ss))

\* All sequences over S of length at most n.
RECURSIVE SeqsUpTo(_, _)
SeqsUpTo(S, n) ==
    IF n = 0 THEN {<< >>}
    ELSE LET shorter == SeqsUpTo(S, n - 1)
         IN  shorter \cup {Append(q, x) : q \in {r \in shorter : Len(r) = n - 1}, x \in S}

\* --- $PhysicalNames: "count", then "dim tag name" ---
NameLines == <<<<I(2), I(20), T("Domain")>>, <<I(0), I(10), T("Corner")>>,
               <<I(1), I(30), T("Wall")>>>>

PhysicalSection(declared, records) == <<<<I(declared)>>>> \o records

PhysicalDefault == PhysicalSection(2, SubSeq(NameLines, 1, 2))

PhysicalSections ==
    {PhysicalSection(d, SubSeq(NameLines, 1, n)) : d \in 0..MaxNames, n \in 0..MaxNames}
    \cup {PhysicalSection(1, <<<<I(2), I(20), T("Inner"), T("Domain")>>>>),
          PhysicalSection(1, <<<<I(2), T("Domain")>>>>),
          PhysicalSection(1, <<<<T("two"), I(20), T("Domain")>>>>),
          <<<<I(1), I(1)>>, NameLines[1]>>,
          << >>}

\* --- $Entities: "nPoints nCurves nSurfaces nVolumes", then the records ---
PointLine(tag, groups) ==
    <<I(tag), I(0), F(5), I(0), I(Len(groups))>> \o Toks(groups)

\* A curve, surface or volume record; the bounding box is written without
\* decimal point when its values are whole numbers.
EntityLine(tag, box, groups, boundary) ==
    <<I(tag)>> \o box \o <<I(Len(groups))>> \o Toks(groups)
    \o <<I(Len(boundary))>> \o Toks(boundary)

WholeBox == <<I(0), I(0), I(0), I(1), I(1), I(0)>>
DecimalBox == <<I(0), I(0), I(0), F(5), I(1), I(0)>>

EntityBody(points, curves, surfaces, volumes) ==
    [points |-> points, curves |-> curves, surfaces |-> surfaces, volumes |-> volumes]

\* One point in group 10 and one surface in group 20.
MinimalBody ==
    EntityBody(<<PointLine(1, <<10>>)>>, << >>,
               <<EntityLine(1, WholeBox, <<20>>, <<1>>)>>, << >>)

\* Every dimension present; a curve in no group, a surface in three groups.
FullBody ==
    EntityBody(<<PointLine(1, <<10>>)>>,
               <<EntityLine(1, WholeBox, << >>, <<1, -1>>)>>,
               <<EntityLine(1, DecimalBox, <<20>>, <<1>>),
                 EntityLine(2, WholeBox, <<21, 22, 23>>, <<-1>>)>>,
               <<EntityLine(1, WholeBox, <<30, 31>>, <<1, 2>>)>>)

\* Points in several groups, which read as entity records too.
GroupedPointsBody ==
    EntityBody(<<PointLine(1, <<10>>), PointLine(2, <<10, 11, 0, 0>>)>>,
               <<EntityLine(1, WholeBox, <<40>>, <<1, -2>>)>>,
               << >>, << >>)

EntityBodies == {MinimalBody, FullBody, GroupedPointsBody}

\* The section of a body, each declared count off by delta[dimension].
EntitySection(body, delta) ==
    <<Toks(<<Len(body.points) + delta[1], Len(body.curves) + delta[2],
             Len(body.surfaces) + delta[3], Len(body.volumes) + delta[4]>>)>>
    \o body.points \o body.curves \o body.surfaces \o body.volumes

NoDelta == <<0, 0, 0, 0>>

\* One declared count changed by +1 or -1.
CountDeltas == {[j \in 1..4 |-> IF j = p THEN d ELSE 0] : p \in 1..4, d \in {-1, 1}}

EntitySections ==
    {EntitySection(b, d) : b \in EntityBodies, d \in CountDeltas \cup {NoDelta}}
    \cup {<<Toks(<<1, 0, 0>>), PointLine(1, <<10>>)>>,
          <<<<I(1), I(0), I(0), T("none")>>, PointLine(1, <<10>>)>>,
          <<Toks(<<1, 0, 0, 0>>), <<I(1), I(0), I(0)>>>>,
          <<Toks(<<0, 1, 0, 0>>), <<I(1), I(0), I(0), I(0), I(1), I(1), I(0)>>>>}

\* --- $Nodes: "numBlocks numVertices minTag maxTag", a block header, the
\* tag lines of the block, then its coordinate lines ---
CoordLine(j) ==
    IF j = 1 THEN <<I(0), I(0), I(0)>>
    ELSE IF j = 2 THEN <<I(1), I(0), I(0)>>
    ELSE <<F(5), F(5), I(j)>>

NodeSection(declared, minTag, maxTag, tags, nCoords) ==
    <<Toks(<<1, declared, minTag, maxTag>>), Toks(<<2, 1, 0, Len(tags)>>)>>
    \o [j \in 1..Len(tags) |-> <<I(tags[j])>>]
    \o [j \in 1..nCoords |-> CoordLine(j)]

\* A section whose header agrees with its first and last tag.
PlainNodes(tags) ==
    NodeSection(Len(tags), tags[1], tags[Len(tags)], tags, Len(tags))

NodeSectionsPlain == {PlainNodes(<<1, 2>>), PlainNodes(<<1, 2, 3>>), PlainNodes(<<2, 1>>)}

VertexTags == {1, 2, 3}

NodeSections ==
    {NodeSection(n, lo, hi, tags, c) :
        n \in 0..MaxVerts, lo \in VertexTags, hi \in VertexTags,
        tags \in SeqsUpTo(VertexTags, MaxVerts), c \in 0..MaxVerts}
    \cup {<<<<I(1), I(1), I(1)>>, <<I(1)>>, CoordLine(1)>>,
          <<Toks(<<1, 1, 1, 1>>), <<T("one")>>, CoordLine(1)>>,
          <<Toks(<<1, 1, 1, 1>>), <<I(1)>>, <<I(0), T("y"), I(0)>>>>,
          << >>,
          \* tag and coordinate lines alternating, a two-token line between
          <<Toks(<<1, 2, 2, 1>>), <<I(2)>>, CoordLine(3), <<I(0), I(0)>>, <<I(1)>>,
            CoordLine(2)>>,
          \* a coordinate line before the first tag line, a tag line too many
          <<Toks(<<1, 2, 3, 1>>), CoordLine(2), Toks(<<2, 1, 0, 2>>), <<I(3)>>, <<I(1)>>,
            CoordLine(1), <<I(2)>>>>}

\* --- $Elements: a summary line, then blocks "dim owner type count" each
\* followed by its "tag vertex..." lines ---
ElementBlock(elDim, owner, elType, elements) ==
    <<Toks(<<elDim, owner, elType, Len(elements)>>)>>
    \o [j \in 1..Len(elements) |-> Toks(elements[j])]

ElementItems ==
    {ElementBlock(2, 1, 1, <<<<1, 1, 2>>>>),                 \* a line on surface 1
     ElementBlock(2, 2, 2, <<<<2, 1, 2, 3>>>>),              \* a triangle on surface 2
     ElementBlock(1, 1, 1, <<<<3, 1, 2>>, <<4, 2, 3>>>>),    \* two lines on curve 1
     ElementBlock(3, 1, 4, <<<<5, 1, 2, 3, 3>>>>),           \* a tetrahedron in volume 1
     ElementBlock(0, 1, 15, <<<<6, 1>>>>),                   \* a point element
     ElementBlock(2, 9, 1, <<<<7, 1, 2>>>>),                 \* owner 9 does not exist
     ElementBlock(4, 1, 1, <<<<8, 2, 1>>>>),                 \* no table of dimension 4
     <<<<I(0), I(0)>>>>,                                     \* a stray line
     ElementBlock(1, 1, 15, <<<<9, 0>>>>),                   \* a point element on curve 1
     <<Toks(<<2, 1, 1, 2>>), Toks(<<10, 1, 2>>)>>}           \* two declared, one present

ElementSection(items) == <<Toks(<<Len(items), 1, 1, 8>>)>> \o Flatten(items)

ElementSections == {ElementSection(q) : q \in SeqsUpTo(ElementItems, MaxBlocks)}

MinimalElements == ElementSection(<<ElementBlock(2, 1, 1, <<<<1, 1, 2>>>>)>>)

\* First lines of an elements section: counts that are wrong, a line that
\* reads as a block header, a word, an empty line.
SummaryLines == {Toks(<<0, 0, 0, 0>>), Toks(<<2, 1, 1, 1>>), <<I(7)>>, <<T("many")>>, << >>}

WithSummary(section, summary) == [section EXCEPT ![1] = summary]

\* Sections of one block whose header declares no element, or fewer.
BlockCounts == {0, -1, -2, -3, -5}

CountSections ==
    {<<Toks(<<1, 1, 1, 8>>), Toks(<<1, 1, 1, c>>), Toks(<<3, 1, 2>>)>> : c \in BlockCounts}

FieldNames == {"MaterialID", "Pressure"}
FieldLists == SeqsUpTo(FieldNames, MaxFields)

\* --- the file ---
MeshFile(physical, entities, nodes, elements) ==
    <<Marker("$MeshFormat"), <<F(41), I(0), I(8)>>, Marker("$EndMeshFormat"),
      Marker("$PhysicalNames")>> \o physical
    \o <<Marker("$EndPhysicalNames"), Marker("$Entities")>> \o entities
    \o <<Marker("$EndEntities"), Marker("$Nodes")>> \o nodes
    \o <<Marker("$EndNodes"), Marker("$Elements")>> \o elements
    \o <<Marker("$EndElements")>>

Markers == {"$PhysicalNames", "$EndPhysicalNames", "$Entities", "$EndEntities",
            "$Nodes", "$EndNodes", "$Elements", "$EndElements"}

\* The file without its (first) line line.
Without(lines, line) ==
    LET p == PyIndex(lines, line)
    IN  IF p = -1 THEN lines ELSE PySlice(lines, 0, p) \o PyFrom(lines, p + 1)

\* The scenario of the specification's section 8.
MinimalMesh ==
    MeshFile(PhysicalDefault, EntitySection(MinimalBody, NoDelta),
             PlainNodes(<<1, 2>>), MinimalElements)

DefaultEntities == EntitySection(FullBody, NoDelta)
DefaultNodes == PlainNodes(<<1, 2, 3>>)
DefaultMesh ==
    MeshFile(PhysicalDefault, DefaultEntities, DefaultNodes,
             ElementSection(<<ElementBlock(2, 2, 2, <<<<2, 1, 2, 3>>>>)>>))

Inputs ==
    \* whole conversions
    {[meshFile |-> MeshFile(PhysicalDefault, EntitySection(b, NoDelta), n, e),
      fields |-> <<"MaterialID">>] :
        b \in {MinimalBody, FullBody}, n \in NodeSectionsPlain, e \in ElementSections}
    \* field lists
    \cup {[meshFile |-> MeshFile(PhysicalDefault, DefaultEntities, DefaultNodes, e),
           fields |-> f] :
            e \in {x \in ElementSections : Len(x) <= 3}, f \in FieldLists}
    \* one section at a time
    \cup {[meshFile |-> MeshFile(p, DefaultEntities, DefaultNodes, MinimalElements),
           fields |-> <<"MaterialID">>] : p \in PhysicalSections}
    \cup {[meshFile |-> MeshFile(PhysicalDefault, s, DefaultNodes, MinimalElements),
           fields |-> <<"MaterialID">>] : s \in EntitySections}
    \cup {[meshFile |-> MeshFile(PhysicalDefault, DefaultEntities, n, MinimalElements),
           fields |-> <<"MaterialID">>] : n \in NodeSections}
    \* the first line of the elements section
    \cup {[meshFile |-> MeshFile(PhysicalDefault, DefaultEntities, DefaultNodes,
                                 WithSummary(e, s)),
           fields |-> <<"MaterialID">>] :
            e \in {x \in ElementSections : Len(x) <= 3}, s \in SummaryLines}
    \* the declared count of a block
    \cup {[meshFile |-> MeshFile(PhysicalDefault, DefaultEntities, DefaultNodes,
                                 WithSummary(e, s)),
           fields |-> <<"MaterialID">>] :
            e \in CountSections, s \in SummaryLines \cup {Toks(<<1, 1, 1, 8>>)}}
    \* a marker line missing
    \cup {[meshFile |-> Without(f, Marker(m)), fields |-> <<"MaterialID">>] :
            f \in {MinimalMesh, DefaultMesh}, m \in Markers}

\* ---------------------------------------------------------------------
\* TPZBasicDataStructure: the attribute lock
\* ---------------------------------------------------------------------

\* The names the class defines: the dataclass field, whose default False is
\* a class attribute, and the methods.
ClassNames == {"fDeactivateAttr", "DeactivateAttr", "ActivateAttr", "DebugStop"}

\* The names assigned to: those of the class and one it does not define.
AttrNames == ClassNames \cup {"fLength"}

\* The values assigned: False and True (0 and 1, as Python counts them) and
\* 2; none of them can be called.
AttrValues == {0, 1, 2}

\* bool(value), as "not self.fDeactivateAttr" takes it.
Truthy(value) == value # 0

\* self.fDeactivateAttr: the attribute of the object or, without one, the
\* default of the class.
FlagOf(dict) ==
    IF "fDeactivateAttr" \in DOMAIN dict THEN dict["fDeactivateAttr"] ELSE 0

\* hasattr(self, name)
HasAttr(dict, name) == name \in DOMAIN dict \/ name \in ClassNames

\* super().__setattr__(name, value)
Stored(dict, name, value) ==
    [n \in DOMAIN dict \cup {name} |-> IF n = name THEN value ELSE dict[n]]

\* An attribute of the object hides the method of the class of that name,
\* and calling it raises TypeError, its value being no function.
Shadowed(dict, method) == method \in DOMAIN dict

\* self.DebugStop(message)
DebugStop(dict) ==
    Raise(dict, IF Shadowed(dict, "DebugStop") THEN "TypeError" ELSE "ValueError")

\* __setattr__ without the lock.
SetAttrUnchecked(dict, name, value) == Ok(Stored(dict, name, value))

\* __setattr__(self, name, value)
SetAttr(dict, name, value) ==
    IF ~Truthy(FlagOf(dict)) THEN Ok(Stored(dict, name, value))
    ELSE IF HasAttr(dict, name) THEN Ok(Stored(dict, name, value))
    ELSE DebugStop(dict)

\* TPZBasicDataStructure(fDeactivateAttr): the __init__ of the dataclass
\* assigns the field.
NewBasicDataStructure(args) ==
    /\ \E a \in args :
         /\ attrs = SetAttr(<< >>, "fDeactivateAttr", a).tab
         /\ call = [op |-> "__init__", name |-> "fDeactivateAttr", value |-> a]
    /\ raised = ""
    /\ lock = "never"

\* self.DeactivateAttr()
DeactivateAttr ==
    /\ call' = [op |-> "DeactivateAttr", name |-> "fDeactivateAttr", value |-> 1]
    /\ IF Shadowed(attrs, "DeactivateAttr")
       THEN raised' = "TypeError" /\ UNCHANGED <<attrs, lock>>
       ELSE LET r == SetAttr(attrs, "fDeactivateAttr", 1) IN
            /\ attrs' = r.tab
            /\ raised' = r.err
            /\ lock' = IF r.err = "" THEN "active" ELSE lock
    /\ UNCHANGED <<converterVars, samplingVars>>

\* self.ActivateAttr()
ActivateAttr ==
    /\ call' = [op |-> "ActivateAttr", name |-> "fDeactivateAttr", value |-> 0]
    /\ IF Shadowed(attrs, "ActivateAttr")
       THEN raised' = "TypeError" /\ UNCHANGED <<attrs, lock>>
       ELSE LET r == SetAttr(attrs, "fDeactivateAttr", 0) IN
            /\ attrs' = r.tab
            /\ raised' = r.err
            /\ lock' = IF r.err = "" THEN "released" ELSE lock
    /\ UNCHANGED <<converterVars, samplingVars>>

\* self.<name> = value
Assign ==
    /\ \E name \in AttrNames, value \in AttrValues :
         LET r == SetAttr(attrs, name, value) IN
         /\ call' = [op |-> "__setattr__", name |-> name, value |-> value]
         /\ attrs' = r.tab
         /\ raised' = r.err
    /\ UNCHANGED <<lock, converterVars, samplingVars>>

\* ---------------------------------------------------------------------
\* TPZRandomObstruction.NoOverlappingCircles
\* ---------------------------------------------------------------------

\* The limit of counter in the loop condition.
MaxAttempts == 1000

MaxObstructions == 2      \* fNumberOfObstructions is at most this

\* The radius of the module and of an obstruction, in whole units. Centres
\* are in twentieths of a unit, which makes .85, 2.5 and .75 times a radius
\* whole numbers.
Geometries ==
    {[fRadius |-> 3, fObstructionRadius |-> 1],
     [fRadius |-> 4, fObstructionRadius |-> 1]}

\* GetObstructionDomain: .85 * (fRadius - fObstructionRadius), twice.
GetObstructionDomain(radius, obstructionRadius) ==
    <<17 * (radius - obstructionRadius), 17 * (radius - obstructionRadius)>>

\* (-1) ** random.randint(0, 1)
Multipliers == {1, -1}

\* random.uniform(0, dom): of the numbers it can return, the two ends.
Uniform(dom) == {0, dom}

\* EuclideanDistance(x, y, Xcenter, Ycenter) < 2.5 * fObstructionRadius,
\* both sides squared (neither is negative).
TooClose(x, y, centre, obstructionRadius) ==
    (x - centre[1]) * (x - centre[1]) + (y - centre[2]) * (y - centre[2])
        < 2500 * obstructionRadius * obstructionRadius

\* x ** 2 + y ** 2 < (.75 * fRadius) ** 2
InsideModule(x, y, radius) == x * x + y * y < 225 * radius * radius

\* The loop condition with a limit that lets attempt 1001 be made.
WhileConditionInclusive(list, n, c) == Len(list) < n /\ c <= MaxAttempts

\* len(circleList) < self.fNumberOfObstructions and counter < 1000
WhileCondition(list, n, c) == Len(list) < n /\ c < MaxAttempts

\* A TPZRandomObstruction with its fields set, and NoOverlappingCircles
\* called on it: the locals before the loop.
NoOverlappingCirclesCalled(geometries, numbers) ==
    /\ \E g \in geometries :
         fRadius = g.fRadius /\ fObstructionRadius = g.fObstructionRadius
    /\ fNumberOfObstructions \in numbers
    /\ counter = 0
    /\ circleList = << >>
    /\ sampling = "while"

\* One iteration of the while loop.
NoOverlappingCirclesWhile ==
    /\ sampling = "while"
    /\ WhileCondition(circleList, fNumberOfObstructions, counter)
    /\ counter' = counter + 1
    /\ LET dom == GetObstructionDomain(fRadius, fObstructionRadius) IN
       \E xMult \in Multipliers, yMult \in Multipliers,
          u \in Uniform(dom[1]), v \in Uniform(dom[2]) :
           LET x == xMult * u
               y == yMult * v
           IN  circleList' =
                 IF ~\E c \in 1..Len(circleList) :
                        TooClose(x, y, circleList[c], fObstructionRadius)
                 THEN IF InsideModule(x, y, fRadius)
                      THEN Append(circleList, <<x, y>>)
                      ELSE circleList
                 ELSE circleList
    /\ UNCHANGED <<fRadius, fObstructionRadius, fNumberOfObstructions, sampling,
                   converterVars, lockVars>>

\* return circleList
NoOverlappingCirclesReturn ==
    /\ sampling = "while"
    /\ ~WhileCondition(circleList, fNumberOfObstructions, counter)
    /\ sampling' = "return"
    /\ UNCHANGED <<fRadius, fObstructionRadius, fNumberOfObstructions, counter,
                   circleList, converterVars, lockVars>>

\* ---------------------------------------------------------------------
\* One call of Do on a new converter
\* ---------------------------------------------------------------------

\* A new converter object (__init__) and the first call of Do on it.
NewConverter(inputs) ==
    /\ \E in \in inputs : meshFile = in.meshFile /\ fields = in.fields
    /\ run = 1
    /\ pc = "Locate"
    /\ status = "running"
    /\ err = ""
    /\ idx = NoIdx
    /\ fPhysicalNames = << >>
    /\ fEntities = NewEntities
    /\ fNodes = << >>
    /\ fElements = << >>
    /\ i = 0
    /\ text = << >>
    /\ disk = << >>

\* The other two objects as they are made, with nothing called on them
\* while the converter runs.
OtherObjects ==
    /\ NewBasicDataStructure({0})
    /\ NoOverlappingCirclesCalled({[fRadius |-> 3, fObstructionRadius |-> 1]}, {0})

Init == NewConverter(Inputs) /\ OtherObjects

Next ==
    \/ DoLocate
    \/ DoParsePhysicalNames
    \/ DoParseEntities
    \/ DoParseNodes
    \/ DoParseElements
    \/ ParseElementsWhile
    \/ DoMergeEntityAndElements
    \/ DoWriteVTKPointData
    \/ DoWriteVTKCellData
    \/ DoWriteVTKCellTypes
    \/ DoWriteVTKHeader
    \/ DoWrite

Spec == Init /\ [][Next]_vars

(***************************************************************************)
(* Several calls of Do on one object: __init__ runs once, so that a later  *)
(* call starts from the tables the earlier calls left.                     *)
(***************************************************************************)
MaxRuns == 2      \* calls of Do on one object

SessionInputs ==
    {[meshFile |-> MinimalMesh, fields |-> <<"MaterialID">>],
     [meshFile |-> DefaultMesh, fields |-> <<"MaterialID">>],
     [meshFile |-> MinimalMesh, fields |-> <<"Pressure">>],
     [meshFile |-> Without(MinimalMesh, Marker("$Nodes")), fields |-> <<"MaterialID">>],
     [meshFile |-> MeshFile(PhysicalSection(0, << >>), EntitySection(MinimalBody, NoDelta),
                            PlainNodes(<<1, 2>>), MinimalElements),
      fields |-> <<"MaterialID">>],
     [meshFile |-> MeshFile(PhysicalDefault, EntitySection(MinimalBody, NoDelta),
                            PlainNodes(<<1, 2>>),
                            ElementSection(<<ElementBlock(2, 9, 1, <<<<7, 1, 2>>>>)>>)),
      fields |-> <<"MaterialID">>]}

\* Do called again on the object once the previous call has returned or
\* raised: the locals are new, the tables are the ones the object holds.
DoAgain ==
    /\ status # "running"
    /\ run < MaxRuns
    /\ \E in \in SessionInputs : meshFile' = in.meshFile /\ fields' = in.fields
    /\ run' = run + 1
    /\ pc' = "Locate"
    /\ status' = "running"
    /\ err' = ""
    /\ idx' = NoIdx
    /\ i' = 0
    /\ text' = << >>
    /\ UNCHANGED <<tables, disk, lockVars, samplingVars>>

InitSessions == NewConverter(SessionInputs) /\ OtherObjects

NextSessions ==
    \/ DoLocate
    \/ DoParsePhysicalNames
    \/ DoParseEntities
    \/ DoParseNodes
    \/ DoParseElements
    \/ ParseElementsWhile
    \/ DoMergeEntityAndElements
    \/ DoWriteVTKPointData
    \/ DoWriteVTKCellData
    \/ DoWriteVTKCellTypes
    \/ DoWriteVTKHeader
    \/ DoWrite
    \/ DoAgain

SpecSessions == InitSessions /\ [][NextSessions]_vars

\* ---------------------------------------------------------------------
\* Calls on a TPZBasicDataStructure object, in any order
\* ---------------------------------------------------------------------

\* A converter on which Do is not called.
IdleConverter == NewConverter({[meshFile |-> MinimalMesh, fields |-> <<"MaterialID">>]})

InitAttr ==
    /\ NewBasicDataStructure({0, 1})
    /\ IdleConverter
    /\ NoOverlappingCirclesCalled({[fRadius |-> 3, fObstructionRadius |-> 1]}, {0})

NextAttr ==
    \/ DeactivateAttr
    \/ ActivateAttr
    \/ Assign

SpecAttr == InitAttr /\ [][NextAttr]_vars

\* ---------------------------------------------------------------------
\* One call of NoOverlappingCircles; the interpreter runs the loop on
\* ---------------------------------------------------------------------

InitSampling ==
    /\ NoOverlappingCirclesCalled(Geometries, 0..MaxObstructions)
    /\ IdleConverter
    /\ NewBasicDataStructure({0})

NextSampling ==
    \/ NoOverlappingCirclesWhile
    \/ NoOverlappingCirclesReturn

SpecSampling == InitSampling /\ [][NextSampling]_vars /\ WF_vars(NextSampling)

(***************************************************************************)
(* Properties.                                                             *)
(***************************************************************************)
AfterParseNodes ==
    {"ParseElements", "ParseElementsWhile", "MergeEntityAndElements",
     "WriteVTKPointData", "WriteVTKCellData", "WriteVTKCellTypes", "WriteVTKHeader",
     "write", "return"}

AfterParseElements == AfterParseNodes \ {"ParseElements", "ParseElementsWhile"}

\* The number of cells emitted for the elements before element number e.
RECURSIVE GroupsBefore(_, _)
GroupsBefore(elems, e) ==
    IF e <= 1 THEN 0
    ELSE GroupsBefore(elems, e - 1) + Len(elems[e - 1].physicalGroups)

\* The blocks of the written file.
OutCells == disk[1][3]
OutTypes == disk[1][4]
OutField == disk[1][5]

\* C1 (duplication law): in a written file, an element whose resolved groups
\* are g1..gk has exactly k cell records, all with the same connectivity,
\* exactly k cell-type entries and exactly k field values, and the field
\* values of those records are g1..gk in that order.
C1_DuplicationLaw ==
    status = "done" =>
        LET total == GroupsBefore(fElements, Len(fElements) + 1) IN
        /\ Len(OutCells.rows) = total
        /\ Len(OutTypes.rows) = total
        /\ Len(OutField.rows) = total
        /\ \A e \in 1..Len(fElements) :
             LET groups == fElements[e].physicalGroups
                 off == GroupsBefore(fElements, e)
             IN  \A j \in 1..Len(groups) :
                    /\ OutCells.rows[off + j] = OutCells.rows[off + 1]
                    /\ OutTypes.rows[off + j] = OutTypes.rows[off + 1]
                    /\ OutField.rows[off + j] = <<groups[j]>>

\* A file is written for a mesh with an element in three groups.
C1_Witness ==
    /\ status = "done"
    /\ \E e \in 1..Len(fElements) : fElements[e].physicalGroups = <<21, 22, 23>>

\* C2 (atomic output): the file is written at most once, by the last step of
\* a run that returns; a run that fails has written nothing.
C2_AtomicOutput ==
    [][/\ disk = << >>
       /\ disk' # << >> => (Len(disk') = 1 /\ status' = "done" /\ pc = "write")
       /\ status' = "failed" => disk' = << >>]_vars

\* A run fails after the whole text but the field block was built.
C2_Witness ==
    /\ status = "failed"
    /\ pc = "WriteVTKHeader"
    /\ Len(text) = 4
    /\ disk = << >>

\* The entities of dimension elDim, none for a dimension without table.
TableOf(ents, elDim) ==
    CASE elDim = 0 -> ents.nodes
      [] elDim = 1 -> ents.curves
      [] elDim = 2 -> ents.surfaces
      [] elDim = 3 -> ents.volumes
      [] OTHER -> << >>

Dangling(element, ents) ==
    \A j \in 1..Len(TableOf(ents, element.dim)) :
        TableOf(ents, element.dim)[j].tag # element.entityTag

\* C3 (dangling reference): when a parsed element has an ownerEntityTag that
\* no entity of the element's dimension carries, the run does not get past
\* MergeEntityAndElements and nothing is written.
C3_DanglingAborts ==
    (/\ pc \in AfterParseElements
     /\ \E e \in 1..Len(fElements) : Dangling(fElements[e], fEntities))
    => /\ pc = "MergeEntityAndElements"
       /\ status # "done"
       /\ disk = << >>

HasUnsupportedField == \E j \in 1..Len(fields) : fields[j] # "MaterialID"

\* C4 (unsupported field): with a name other than "MaterialID" anywhere in
\* the field list the run never gets past WriteVTKHeader, does not return
\* and writes nothing.
C4_UnsupportedFieldAborts ==
    HasUnsupportedField =>
        /\ pc \notin {"write", "return"}
        /\ status # "done"
        /\ disk = << >>

\* WriteVTKHeader stops on the second name of the list.
C4_Witness ==
    /\ fields = <<"MaterialID", "Pressure">>
    /\ pc = "WriteVTKHeader"
    /\ status = "failed"
    /\ err = "DebugStop"

\* The sections of the input file, as Do slices them.
PhysicalLines == Section(meshFile, idx.PhysicalNames)
EntityLines == Section(meshFile, idx.Entities)
NodeLines == Section(meshFile, idx.Nodes)

\* C5 (count invariant): once ParsePhysicalNames, ParseEntities and
\* ParseNodes have returned, the sizes of the name table, of the vertex table
\* and of the four entity tables are the counts their sections declare.
C5_CountInvariant ==
    pc \in AfterParseNodes =>
        /\ Len(fPhysicalNames) = PyInt(PhysicalLines[1][1])
        /\ Len(fNodes) = PyInt(NodeLines[1][2])
        /\ Len(fEntities.nodes) = PyInt(EntityLines[1][1])
        /\ Len(fEntities.curves) = PyInt(EntityLines[1][2])
        /\ Len(fEntities.surfaces) = PyInt(EntityLines[1][3])
        /\ Len(fEntities.volumes) = PyInt(EntityLines[1][4])

\* The three parsers have returned on a mesh with entities of every dimension.
C5_Witness ==
    /\ pc = "ParseElements"
    /\ Len(fPhysicalNames) = 2
    /\ Len(fNodes) = 3
    /\ Len(fEntities.surfaces) = 2
    /\ Len(fEntities.volumes) = 1

\* The section with the number at position p of its first line changed by d.
Redeclared(section, p, d) ==
    [section EXCEPT ![1][p] = I(PyInt(section[1][p]) + d)]

\* C6 (count violation is fatal): for an input the three parsers accept,
\* changing one declared count (names, vertices, or one entity dimension) by
\* +1 or -1 and leaving the records as they are makes the parser of that
\* section raise on a new converter.
C6_CountViolationFatal ==
    pc = "ParseElements" =>
        \A d \in {-1, 1} :
            /\ ParsePhysicalNames(<< >>, Redeclared(PhysicalLines, 1, d)).err # ""
            /\ ParseNodes(<< >>, Redeclared(NodeLines, 2, d)).err # ""
            /\ \A p \in 1..4 :
                 ParseEntities(NewEntities, Redeclared(EntityLines, p, d)).err # ""

\* ParseEntities stops on the full mesh declared with one curve less.
C6_Witness ==
    /\ pc = "ParseEntities"
    /\ status = "failed"
    /\ err = "DebugStop"
    /\ EntityLines = EntitySection(FullBody, <<0, -1, 0, 0>>)
    /\ ParseEntities(NewEntities, EntitySection(FullBody, NoDelta)).err = ""

RECURSIVE MinOf(_)
MinOf(ns) ==
    IF Len(ns) = 1 THEN ns[1]
    ELSE LET m == MinOf(Tail(ns)) IN IF ns[1] < m THEN ns[1] ELSE m

RECURSIVE MaxOf(_)
MaxOf(ns) ==
    IF Len(ns) = 1 THEN ns[1]
    ELSE LET m == MaxOf(Tail(ns)) IN IF ns[1] > m THEN ns[1] ELSE m

VertexTagsOf(nodes) == [j \in 1..Len(nodes) |-> nodes[j].tag]

\* C7 (vertex tag extremes): once ParseNodes has returned, the least and the
\* greatest parsed vertex tag are the declared minTag and maxTag.
C7_TagExtremes ==
    pc \in AfterParseNodes =>
        /\ MinOf(VertexTagsOf(fNodes)) = PyInt(NodeLines[1][3])
        /\ MaxOf(VertexTagsOf(fNodes)) = PyInt(NodeLines[1][4])

\* C8 (index conversion): every cell record built for an element with
\* vertex tags t1..tn is n, t1 - 1, ..., tn - 1.
C8_IndexConversion ==
    Len(text) >= 3 =>
        \A e \in 1..Len(fElements) :
            LET tags == fElements[e].nodeTags
                off == GroupsBefore(fElements, e)
            IN  \A j \in 1..Len(fElements[e].physicalGroups) :
                   /\ Len(text[3].rows[off + j]) = 1 + Len(tags)
                   /\ text[3].rows[off + j][1] = Len(tags)
                   /\ \A m \in 1..Len(tags) :
                        text[3].rows[off + j][1 + m] = tags[m] - 1

\* The cell of a triangle with the vertices 1, 2, 3 has been built.
C8_Witness ==
    /\ Len(text) >= 3
    /\ \E j \in 1..Len(text[3].rows) : text[3].rows[j] = <<3, 0, 1, 2>>

\* C9 (end-to-end scenario): the conversion of the minimal mesh with the
\* field list [MaterialID] does not fail, and the file it writes has a Points
\* block of 2 points, the one cell record 2 0 1, the one cell type 3 and the
\* one field value 20.
C9_EndToEnd ==
    (meshFile = MinimalMesh /\ fields = <<"MaterialID">>) =>
        /\ status # "failed"
        /\ status = "done" =>
             /\ Len(disk) = 1
             /\ [b \in 1..Len(disk[1]) |-> disk[1][b].kind]
                  = <<VTKPreamble.kind, "POINTS", "CELLS", "CELL_TYPES", "CELL_DATA">>
             /\ disk[1][2].head = <<2>>
             /\ disk[1][2].rows = <<<<0, 0, 0>>, <<10, 0, 0>>>>
             /\ OutCells.head = <<1, 3>>
             /\ OutCells.rows = <<<<2, 0, 1>>>>
             /\ OutTypes.head = <<1>>
             /\ OutTypes.rows = <<<<3>>>>
             /\ OutField.head = <<1, 1>>
             /\ OutField.rows = <<<<20>>>>

\* The conversion of the minimal mesh has returned.
C9_Witness ==
    /\ meshFile = MinimalMesh
    /\ fields = <<"MaterialID">>
    /\ status = "done"

MarkerAbsent ==
    \E m \in Markers : \A j \in 1..Len(meshFile) : meshFile[j] # Marker(m)

\* C10 (section locator): with one of the eight marker lines absent, Do
\* raises in the marker lookup: no parser runs, every table stays empty and
\* nothing is written.
C10_SectionLocator ==
    MarkerAbsent =>
        /\ pc = "Locate"
        /\ status # "done"
        /\ fPhysicalNames = << >>
        /\ fEntities = NewEntities
        /\ fNodes = << >>
        /\ fElements = << >>
        /\ disk = << >>

\* Do has raised on a file without its $EndNodes line.
C10_Witness ==
    /\ meshFile = Without(MinimalMesh, Marker("$EndNodes"))
    /\ status = "failed"
    /\ err = "ValueError"

\* What a call of Do with the current arguments does on a new object.
OnNewConverter == Do(NewTables, meshFile, fields)

\* C11 (session independence): whenever a call of Do on an object has ended,
\* whatever the calls made on the object before, it has returned or raised
\* as the same call on a new object does, and the text it has written is the
\* text the call on a new object writes.
C11_SessionIndependence ==
    status # "running" =>
        /\ status = OnNewConverter.status
        /\ status = "done" => disk[Len(disk)] = OnNewConverter.written[1]

AfterMerge ==
    {"WriteVTKPointData", "WriteVTKCellData", "WriteVTKCellTypes", "WriteVTKHeader",
     "write", "return"}

\* The translation table of element types, as pairs (source code, VTK code).
TypeTable == {<<1, 3>>, <<2, 5>>, <<3, 9>>, <<4, 10>>, <<5, 12>>, <<7, 14>>}

Untranslatable(element) ==
    /\ element.physicalGroups # << >>
    /\ \A pair \in TypeTable : pair[1] # element.type

\* C12 (cell-type translation): every entry of a Cell-Types block that has
\* been built is the image, under the table 1->3, 2->5, 3->9, 4->10, 5->12,
\* 7->14, of the type of the element it stands for; and with an element that
\* has a resolved group and a type outside the table the run never gets past
\* WriteVTKCellTypes, does not return and writes nothing.
C12_CellTypeTranslation ==
    /\ Len(text) >= 4 =>
         \A e \in 1..Len(fElements) :
            \A j \in 1..Len(fElements[e].physicalGroups) :
               \E pair \in TypeTable :
                  /\ pair[1] = fElements[e].type
                  /\ text[4].rows[GroupsBefore(fElements, e) + j] = <<pair[2]>>
    /\ (pc \in AfterMerge /\ \E e \in 1..Len(fElements) : Untranslatable(fElements[e]))
       => /\ pc \in {"WriteVTKPointData", "WriteVTKCellData", "WriteVTKCellTypes"}
          /\ Len(text) < 4
          /\ status # "done"
          /\ disk = << >>

\* WriteVTKCellTypes has raised on a point element (type 15) of a point that
\* is in a group, after a triangle.
C12_Witness ==
    /\ pc = "WriteVTKCellTypes"
    /\ status = "failed"
    /\ err = "KeyError"
    /\ Len(fElements) = 2
    /\ fElements[1].type = 2
    /\ fElements[2].type = 15

\* The elements that are in at least one group, in order.
RECURSIVE InSomeGroup(_)
InSomeGroup(elems) ==
    IF elems = << >> THEN << >>
    ELSE (IF Head(elems).physicalGroups = << >> THEN << >> ELSE <<Head(elems)>>)
         \o InSomeGroup(Tail(elems))

\* C13 (zero-group drop): once the references are resolved, the serializer
\* does with the element table what it does with the table without the
\* elements whose group list is empty (same blocks, or the same failure), and
\* a file that is written is the file of the table without them.
C13_ZeroGroupDrop ==
    pc \in AfterMerge =>
        /\ WriteVTK(fNodes, fElements, fields) = WriteVTK(fNodes, InSomeGroup(fElements), fields)
        /\ Len(text) >= 3 => text[3] = WriteVTKCellData(InSomeGroup(fElements))
        /\ Len(text) >= 4 => text[4] = WriteVTKCellTypes(InSomeGroup(fElements)).tab
        /\ status = "done" => disk = <<WriteVTK(fNodes, InSomeGroup(fElements), fields).tab>>

\* A file is written for a table with a triangle in three groups and an
\* element without group whose type (15) is not in the table and whose vertex
\* tag is 0.
C13_Witness ==
    /\ status = "done"
    /\ Len(fElements) = 2
    /\ fElements[1].type = 15
    /\ fElements[1].nodeTags = <<0>>
    /\ fElements[1].physicalGroups = << >>
    /\ fElements[2].physicalGroups = <<21, 22, 23>>

RECURSIVE SumLen(_)
SumLen(rows) == IF rows = << >> THEN 0 ELSE Len(Head(rows)) + SumLen(Tail(rows))

\* C14 (Cells header arithmetic): the first number of the CELLS line is the
\* sum over the elements of their numbers of groups, which is the number of
\* cell records, and the second is the number of integers of the records.
C14_CellsHeader ==
    Len(text) >= 3 =>
        /\ text[3].head[1] = GroupsBefore(fElements, Len(fElements) + 1)
        /\ text[3].head[1] = Len(text[3].rows)
        /\ text[3].head[2] = SumLen(text[3].rows)

\* The block of a tetrahedron in two groups and a line in one: 3 cells and
\* 2 * (1 + 4) + (1 + 2) integers.
C14_Witness ==
    /\ Len(text) >= 3
    /\ text[3].head = <<3, 13>>

\* The (element, group) pairs of a table, in the order of the two loops.
RECURSIVE PairsFrom(_, _)
PairsFrom(elems, e) ==
    IF e > Len(elems) THEN << >>
    ELSE [g \in 1..Len(elems[e].physicalGroups) |-> <<e, g>>] \o PairsFrom(elems, e + 1)

\* C15 (block consistency): in a written file the counts of the CELLS, the
\* CELL_TYPES and the CELL_DATA lines are the same number, the number of
\* (element, group) pairs, and for the j-th pair (e, g) the j-th cell record is
\* the record of element e, the j-th type the image of the type of e, and the
\* j-th field value the g-th group of e.
C15_BlockConsistency ==
    status = "done" =>
        LET pairs == PairsFrom(fElements, 1) IN
        /\ OutCells.head[1] = Len(pairs)
        /\ OutTypes.head[1] = OutCells.head[1]
        /\ OutField.head[1] = OutCells.head[1]
        /\ Len(OutCells.rows) = Len(pairs)
        /\ Len(OutTypes.rows) = Len(pairs)
        /\ Len(OutField.rows) = Len(pairs)
        /\ \A j \in 1..Len(pairs) :
             LET el == fElements[pairs[j][1]] IN
             /\ OutCells.rows[j]
                  = <<Len(el.nodeTags)>> \o [m \in 1..Len(el.nodeTags) |-> el.nodeTags[m] - 1]
             /\ \E pair \in TypeTable : pair[1] = el.type /\ OutTypes.rows[j] = <<pair[2]>>
             /\ OutField.rows[j] = <<el.physicalGroups[pairs[j][2]]>>

\* A file is written for a line in one group followed by a tetrahedron in two.
C15_Witness ==
    /\ status = "done"
    /\ OutCells.rows = <<<<2, 0, 1>>, <<4, 0, 1, 2, 2>>, <<4, 0, 1, 2, 2>>>>
    /\ OutTypes.rows = <<<<3>>, <<10>>, <<10>>>>
    /\ OutField.rows = <<<<20>>, <<30>>, <<31>>>>

\* C16 (output ordering): a written file is the four fixed lines, then the
\* POINTS block, the CELLS block, the CELL_TYPES block and the CELL_DATA
\* block, in that order and nothing else; the POINTS block has the number of
\* parsed vertices and one row per parsed vertex, in the order of the table.
C16_OutputOrdering ==
    status = "done" =>
        /\ Len(disk[1]) = 5
        /\ disk[1][1].kind = "# vtk DataFile Version 2.0"
        /\ disk[1][1].attr = <<"Created by Gmsh 4.13.1", "ASCII", "DATASET UNSTRUCTURED_GRID">>
        /\ disk[1][1].rows = << >>
        /\ disk[1][2].kind = "POINTS"
        /\ disk[1][3].kind = "CELLS"
        /\ disk[1][4].kind = "CELL_TYPES"
        /\ disk[1][5].kind = "CELL_DATA"
        /\ disk[1][2].head = <<Len(fNodes)>>
        /\ Len(disk[1][2].rows) = Len(fNodes)
        /\ \A j \in 1..Len(fNodes) :
             disk[1][2].rows[j] = <<fNodes[j].x, fNodes[j].y, fNodes[j].z>>

\* A file with three points is written.
C16_Witness ==
    /\ status = "done"
    /\ disk[1][2].head = <<3>>
    /\ disk[1][2].rows = <<<<0, 0, 0>>, <<10, 0, 0>>, <<5, 5, 30>>>>

\* C17 (reference resolution): once MergeEntityAndElements has returned,
\* every element has an entity of its own dimension with its ownerEntityTag,
\* and its resolved groups are the groups of that entity.
C17_ReferenceResolution ==
    pc \in AfterMerge =>
        \A e \in 1..Len(fElements) :
            /\ ~Dangling(fElements[e], fEntities)
            /\ fElements[e].physicalGroups
                 = FirstMatch(TableOf(fEntities, fElements[e].dim),
                              fElements[e].entityTag).physicalGroups

ElementLines == Section(meshFile, idx.Elements)

\* The element ParseElements builds from a line of a block.
ElementOf(header, line) ==
    [tag |-> line[1].n, dim |-> header[1].n, type |-> header[3].n,
     nodeTags |-> [m \in 1..(Len(line) - 1) |-> line[m + 1].n],
     entityTag |-> header[2].n]

\* C18 (element block consumption): in a step of the scan that takes the line
\* at position i for a block header "dim owner type n" and does not raise,
\* the n lines at positions i+1..i+n exist and become, in order, the n
\* elements appended to the table, each with the header's dimension, owner
\* and type and with its own tokens as tag and vertex tags, whatever their
\* number; nothing else is appended and the scan resumes at i+1+n.
C18_BlockConsumption ==
    [][(/\ pc = "ParseElementsWhile" /\ pc' = "ParseElementsWhile"
        /\ status = "running" /\ status' = "running"
        /\ i # i'
        /\ Len(ElementLines[i + 1]) = 4)
       => LET header == ElementLines[i + 1]
              n == header[4].n
          IN  /\ i' = i + 1 + n
              /\ i + n < Len(ElementLines)
              /\ Len(fElements') = Len(fElements) + n
              /\ SubSeq(fElements', 1, Len(fElements)) = fElements
              /\ \A k \in 1..n :
                   fElements'[Len(fElements) + k] = ElementOf(header, ElementLines[i + 1 + k])
      ]_vars

\* The input file with another first line in its elements section.
SummaryReplaced(summary) == [meshFile EXCEPT ![idx.Elements[1] + 2] = summary]

\* C19 (no element total check): when ParseElements has returned, the table
\* is the one ParseElements builds from the section with any other first
\* line; and when Do has ended, it has ended (returned or raised, the
\* exception, the text written) as Do ends on the file with any other first
\* line in its elements section.
C19_SummaryLineIgnored ==
    /\ (pc = "MergeEntityAndElements" /\ status = "running") =>
          \A s \in SummaryLines :
              ParseElements(<< >>, WithSummary(ElementLines, s)) = Ok(fElements)
    /\ (status # "running" /\ pc # "Locate") =>
          \A s \in SummaryLines :
              LET other == Do(NewTables, SummaryReplaced(s), fields) IN
              /\ other.status = status
              /\ other.err = err
              /\ other.written = disk

\* The k-th of the lines with n tokens.
NthWith(ls, n, k) ==
    ls[CHOOSE p \in 1..Len(ls) :
          /\ Len(ls[p]) = n
          /\ Cardinality({q \in 1..p : Len(ls[q]) = n}) = k]

\* C20 (vertex pairing): the k-th vertex of the table has the tag of the
\* k-th one-token line and the coordinates of the k-th three-token line
\* among the lines that follow the first line of the vertices section, lines
\* with another number of tokens not counting.
C20_VertexPairing ==
    \A k \in 1..Len(fNodes) :
        LET rest == Tail(NodeLines) IN
        /\ Cardinality({q \in 1..Len(rest) : Len(rest[q]) = 1}) >= k
        /\ Cardinality({q \in 1..Len(rest) : Len(rest[q]) = 3}) >= k
        /\ fNodes[k].tag = PyInt(NthWith(rest, 1, k)[1])
        /\ <<fNodes[k].x, fNodes[k].y, fNodes[k].z>>
             = [m \in 1..3 |-> PyFloat(NthWith(rest, 3, k)[m])]

\* Two vertices are stored from a section whose tag and coordinate lines
\* alternate around a two-token line.
C20_Witness ==
    /\ pc = "ParseElements"
    /\ Len(NodeLines) = 6
    /\ Len(NodeLines[4]) = 2
    /\ fNodes = <<[tag |-> 2, x |-> 5, y |-> 5, z |-> 30],
                  [tag |-> 1, x |-> 10, y |-> 0, z |-> 0]>>

\* The number of lines with n tokens.
CountWith(ls, n) == Cardinality({q \in 1..Len(ls) : Len(ls[q]) = n})

\* C21 (no silent truncation of vertices): once ParseNodes has returned, the
\* lines after the first line of the vertices section hold as many tag lines
\* as coordinate lines, and every one of them is a vertex of the table.
C21_NoSilentTruncation ==
    pc \in AfterParseNodes =>
        /\ CountWith(Tail(NodeLines), 1) = CountWith(Tail(NodeLines), 3)
        /\ CountWith(Tail(NodeLines), 1) = Len(fNodes)

\* A physical-names section that is well formed when a name may be several
\* words: the declared count is the number of records, and every record has
\* an integer dimension, an integer tag and a name of at least one word.
NamesWellFormed(ls) ==
    /\ Len(ls) >= 1
    /\ ls[1] = <<I(Len(ls) - 1)>>
    /\ \A q \in 2..Len(ls) : Len(ls[q]) >= 3 /\ IsInt(ls[q][1]) /\ IsInt(ls[q][2])

\* C22 (names with internal whitespace): on a well-formed section, records
\* with a name of several words included, ParsePhysicalNames does not raise,
\* and the name of the k-th entry of the table is the whole remainder of the
\* k-th record after its dimension and tag.
C22_NamesWithSpaces ==
    (pc # "Locate" /\ NamesWellFormed(PhysicalLines)) =>
        /\ ~(pc = "ParsePhysicalNames" /\ status = "failed")
        /\ pc # "ParsePhysicalNames" =>
             /\ Len(fPhysicalNames) = Len(PhysicalLines) - 1
             /\ \A k \in 1..Len(fPhysicalNames) :
                  <<fPhysicalNames[k].name>>
                     = SubSeq(PhysicalLines[k + 1], 3, Len(PhysicalLines[k + 1]))

\* C23 (vertex tag uniqueness): once ParseNodes has returned, no two
\* vertices of the table have the same tag.
C23_TagsDistinct ==
    pc \in AfterParseNodes =>
        \A a \in 1..Len(fNodes) : \A b \in 1..Len(fNodes) :
            a # b => fNodes[a].tag # fNodes[b].tag

\* What ParseElements stored of an element.
Parsed(element) ==
    <<element.tag, element.dim, element.type, element.entityTag, element.nodeTags>>

\* The group lists of the elements that have one.
ResolvedGroups(elems) ==
    [e \in 1..Len(elems) |->
        IF "physicalGroups" \in DOMAIN elems[e] THEN <<elems[e].physicalGroups>> ELSE << >>]

\* C24 (immutability after parsing): a step of MergeEntityAndElements leaves
\* the name table, the entity tables and the vertex table as they are, and
\* keeps the number of elements and the tag, dimension, type, owner and
\* vertex tags of each; a step of the serializer (the four block writers and
\* the file write) leaves the four tables, group lists included, as they are.
C24_Immutability ==
    [][/\ pc = "MergeEntityAndElements" =>
            /\ fPhysicalNames' = fPhysicalNames
            /\ fEntities' = fEntities
            /\ fNodes' = fNodes
            /\ Len(fElements') = Len(fElements)
            /\ \A e \in 1..Len(fElements) : Parsed(fElements'[e]) = Parsed(fElements[e])
       /\ pc \in AfterMerge =>
            /\ tables' = tables
            /\ ResolvedGroups(fElements') = ResolvedGroups(fElements)
      ]_vars

\* A file is written from a table of two elements, one with a group list of
\* one group and one with an empty group list.
C24_Witness ==
    /\ status = "done"
    /\ Len(fElements) = 2
    /\ fElements[1].nodeTags = <<1, 2>>
    /\ fElements[1].physicalGroups = <<20>>
    /\ fElements[2].physicalGroups = << >>

\* C25 (field list handling): with a list of n supported names, the empty
\* list and lists of several names included, WriteVTKHeader does not raise,
\* and a file that is written ends with n CELL_DATA blocks, the k-th one for
\* the k-th name of the list and with one value per cell.
C25_FieldList ==
    ~HasUnsupportedField =>
        /\ ~(pc = "WriteVTKHeader" /\ status = "failed")
        /\ status = "done" =>
             /\ Len(disk[1]) = 4 + Len(fields)
             /\ \A k \in 1..Len(fields) :
                  /\ disk[1][4 + k].kind = "CELL_DATA"
                  /\ disk[1][4 + k].attr[2] = fields[k]
                  /\ Len(disk[1][4 + k].rows) = OutCells.head[1]

\* C26 (element scan termination): ParseElements returns or raises on every
\* elements section, and every iteration of its loop that does not raise
\* leaves the scan position greater than it was, for a header that declares
\* zero or fewer elements too.
C26_ScanTerminates ==
    /\ pc = "ParseElements" => ParseElements(fElements, ElementLines).err # "NoReturn"
    /\ (pc = "ParseElementsWhile" /\ status = "running"
        /\ ElementsLoopCond(ElementLines, i)) =>
          LET r == ElementsLoopBody(fElements, ElementLines, i)
          IN  r.err = "" => r.i > i

\* C27 (connectivity validity): in a written file, every index of every
\* cell record is at least 0 and less than the number of points of the
\* Points block, and the point it selects is the vertex whose tag is the
\* index plus one.
C27_ConnectivityValidity ==
    status = "done" =>
        \A r \in 1..Len(disk[1][3].rows) :
            \A k \in 2..Len(disk[1][3].rows[r]) :
                LET index == disk[1][3].rows[r][k] IN
                /\ 0 <= index
                /\ index < disk[1][2].head[1]
                /\ fNodes[index + 1].tag = index + 1

\* C28 (empty vertex section): on a vertices section that declares no
\* vertex and has no line of one token or of three tokens after its first
\* line, ParseNodes does not raise and leaves the vertex table empty.
C28_EmptyVertexSection ==
    (/\ pc \in {"ParseNodes"} \cup AfterParseNodes
     /\ Len(NodeLines) >= 1
     /\ Len(NodeLines[1]) = 4
     /\ NodeLines[1][2] = I(0)
     /\ CountWith(Tail(NodeLines), 1) = 0
     /\ CountWith(Tail(NodeLines), 3) = 0) =>
        /\ status # "failed"
        /\ pc \in AfterParseNodes => fNodes = << >>

\* The object has an attribute of that name: one of its own or one of its
\* class.
ObjectHas(name) ==
    name \in DOMAIN attrs \/ name \in {"fDeactivateAttr", "DeactivateAttr", "ActivateAttr", "DebugStop"}

=============================================================================
